---- MODULE Spec2Model ----
(***************************************************************************)
(* A model of monorm's field/schema descriptor system: fields.py (Field,   *)
(* StringField, ArrayField, EmbeddedField) and model.py (ModelType,        *)
(* BaseModel, EmbeddedModel).                                              *)
(*                                                                         *)
(* Python values are tagged records [k |-> tag, v |-> payload]:            *)
(*   "null" None, "str"/"int" scalars (coded by a number), "map" a mapping *)
(*   given by value (an ordered sequence of <<key, value>> pairs), "list"  *)
(*   a list, "obj" a model instance (index into objs), "ref" a mapping     *)
(*   that has an identity (index into dicts), "inst" an instance that was  *)
(*   materialised inside an array (given by the data it wraps).            *)
(* Backing maps of instances live in the heap `dicts` because the code     *)
(* shares them by reference; mappings nested in arrays are kept by value,  *)
(* the model performs no operation on instances materialised in arrays.    *)
(* A dotted path 'a.c' is the tuple <<"a", "c">>.                          *)
(***************************************************************************)
EXTENDS Integers, Sequences, FiniteSets, TLC

VARIABLES
    meta,   \* the Meta block and class toggles the schema was assembled with
    dicts,  \* heap of mappings: [m |-> pairs, skip |-> has _skip_validate]
    objs,   \* heap of instances: [cls, data, cache, modified, deleted]
    held,   \* the instances the caller holds a reference to
    last,   \* the last constructor call, write, delete or clear and its outcome
    calls   \* how many such calls the caller has made

vars == <<meta, dicts, objs, held, last, calls>>

\* Bound of the model: the number of constructor calls, writes, deletes and
\* clears in a run (reads and combines are not counted).
MaxCalls == 3


-----------------------------------------------------------------------------
\* Values.
NULL == [k |-> "null", v |-> 0]
Str(n) == [k |-> "str", v |-> n]
IntV(n) == [k |-> "int", v |-> n]
MapV(pairs) == [k |-> "map", v |-> pairs]
ListV(items) == [k |-> "list", v |-> items]
ObjV(i) == [k |-> "obj", v |-> i]
RefV(d) == [k |-> "ref", v |-> d]
InstV(data) == [k |-> "inst", v |-> data]
IsNull(x) == x.k = "null"

\* Optional[Set[str]]: <<>> is None, <<S>> is the set S.
None == <<>>
Some(S) == <<S>>
SetOf(opt) == IF opt = None THEN {} ELSE opt[1]

\* Ordered mappings (OrderedDict) as sequences of <<key, value>> pairs.
Keys(m) == {m[i][1] : i \in DOMAIN m}
Has(m, key) == key \in Keys(m)
IndexOf(m, key) == CHOOSE i \in DOMAIN m : m[i][1] = key
Get(m, key) == IF Has(m, key) THEN m[IndexOf(m, key)][2] ELSE NULL
PutMovesToEnd(m, key, val) ==
    Append(SelectSeq(m, LAMBDA p : p[1] # key), <<key, val>>)

\* m[key] = val: an entry the map has keeps its place, a new one goes last.
Put(m, key, val) ==
    IF Has(m, key) THEN [m EXCEPT ![IndexOf(m, key)] = <<key, val>>]
    ELSE Append(m, <<key, val>>)
Pop(m, key) == SelectSeq(m, LAMBDA p : p[1] # key)

-----------------------------------------------------------------------------
\* The schema: class Person(BaseModel) declares name, address; class
\* Address(EmbeddedModel) declares city; class Board(BaseModel) declares grid.
\* Meta.aliases, Meta.required and retain_none are drawn in Init.
field_order(cls) ==
    CASE cls = "Person" -> <<"name", "address">>
      [] cls = "Board" -> <<"grid">>
      [] OTHER -> <<"city">>

Attrs(cls) == {field_order(cls)[i] : i \in DOMAIN field_order(cls)}

AliasName(attr) == IF attr = "address" THEN "addr" ELSE "c"

DefaultName == Str(0)

MkField(kind, model, elem, name, required, default) ==
    [kind |-> kind, model |-> model, field |-> elem, name |-> name,
     required |-> required, default |-> default]

\* ModelType._process_meta: an alias replaces field.name, required sets the flag.
ProcessMetaName(attr) ==
    IF attr \in meta.aliases THEN AliasName(attr) ELSE attr

ProcessMetaRequired(attr) == attr \in meta.required

ItemField == MkField("Embedded", "Address", <<>>, "", FALSE, NULL)

FieldOf(cls, attr) ==
    CASE attr = "name" ->
           MkField("String", "", <<>>, ProcessMetaName(attr),
                   ProcessMetaRequired(attr), DefaultName)
      [] attr = "address" ->
           MkField("Embedded", "Address", <<>>, ProcessMetaName(attr),
                   ProcessMetaRequired(attr), NULL)
      [] attr = "grid" ->
           MkField("Array", "", MkField("Array", "", ItemField, "", FALSE, NULL),
                   ProcessMetaName(attr), ProcessMetaRequired(attr), NULL)
      [] OTHER ->
           MkField("String", "", <<>>, ProcessMetaName(attr),
                   ProcessMetaRequired(attr), NULL)

\* EmbeddedField().init_root(cls)
init_root(cls) == MkField("Embedded", cls, <<>>, "", FALSE, NULL)

retain_none == meta.retain_none

-----------------------------------------------------------------------------
\* convert.  A result is [ok, val, skip]: ok = FALSE when the call raises,
\* skip is the set of heap mappings the call marked _skip_validate.
Raised(skip) == [ok |-> FALSE, val |-> NULL, skip |-> skip]
Returned(val, skip) == [ok |-> TRUE, val |-> val, skip |-> skip]

\* Field.convert (no converter is configured in this schema)
FieldConvert(f, value) == IF IsNull(value) THEN f.default ELSE value

RECURSIVE Convert(_, _)
RECURSIVE ConvertFields(_, _, _, _, _)
RECURSIVE ConvertItems(_, _, _, _)
RECURSIVE CopyExtra(_, _, _)

\* EmbeddedField.convert, the loop over self.fields
ConvertFields(model, names, obj, rv, skip) ==
    IF names = <<>> THEN Returned(rv, skip)
    ELSE LET fld == FieldOf(model, Head(names))
             c == Convert(fld, Get(obj, Head(names)))
         IN  IF ~c.ok THEN Raised(skip \cup c.skip)
             ELSE ConvertFields(model, Tail(names), obj,
                                IF ~IsNull(c.val) THEN Put(rv, fld.name, c.val)
                                ELSE IF retain_none THEN Put(rv, fld.name, NULL)
                                ELSE rv,
                                skip \cup c.skip)

\* EmbeddedField.convert, the loop over obj.items()
CopyExtra(model, pairs, rv) ==
    IF pairs = <<>> THEN rv
    ELSE CopyExtra(model, Tail(pairs),
                   IF Head(pairs)[1] \notin Attrs(model)
                   THEN Put(rv, Head(pairs)[1], Head(pairs)[2]) ELSE rv)

\* ArrayField.convert, the list comprehension
ConvertItems(elem, items, out, skip) ==
    IF items = <<>> THEN Returned(out, skip)
    ELSE LET c == Convert(elem, Head(items))
         IN  IF ~c.ok THEN Raised(skip \cup c.skip)
             ELSE ConvertItems(elem, Tail(items), Append(out, c.val), skip \cup c.skip)

EmbeddedConvert(f, obj) ==
    IF obj.k = "obj" /\ objs[obj.v].cls = f.model
    THEN Returned(RefV(objs[obj.v].data), {objs[obj.v].data})
    ELSE LET o == FieldConvert(f, obj)
         IN  IF IsNull(o) THEN Returned(NULL, {})
             ELSE IF o.k # "map" THEN Raised({})
             ELSE LET r == ConvertFields(f.model, field_order(f.model), o.v, <<>>, {})
                  IN  IF ~r.ok THEN r
                      ELSE Returned(MapV(CopyExtra(f.model, o.v, r.val)), r.skip)

ArrayConvert(f, values) ==
    LET v == FieldConvert(f, values)
    IN  IF IsNull(v) THEN Returned(NULL, {})
        ELSE IF v.k # "list" THEN Raised({})
        ELSE LET r == ConvertItems(f.field, v.v, <<>>, {})
             IN  IF ~r.ok THEN r ELSE Returned(ListV(r.val), r.skip)

Convert(f, value) ==
    CASE f.kind = "Embedded" -> EmbeddedConvert(f, value)
      [] f.kind = "Array" -> ArrayConvert(f, value)
      [] OTHER -> Returned(FieldConvert(f, value), {})

-----------------------------------------------------------------------------
\* validate.  TRUE when the call returns, FALSE when it raises.
expected_types(f) ==
    CASE f.kind = "String" -> {"str"}
      [] f.kind = "Array" -> {"list"}
      [] OTHER -> {"map", "ref"}

\* Field.validate (no validator is configured in this schema)
FieldValidate(f, value) ==
    IF IsNull(value) THEN ~f.required ELSE value.k \in expected_types(f)

\* The pairs of a mapping value.
PairsOf(obj) == IF obj.k = "ref" THEN dicts[obj.v].m ELSE obj.v

\* EmbeddedField.validate looks each value up with obj.get(name), name being
\* the key of self.fields, the attribute name.
ValidateLookupKey(model, attr) == attr

RECURSIVE Validate(_, _, _)

EmbeddedValidate(f, obj, skipped) ==
    IF obj.k = "ref" /\ obj.v \in skipped THEN TRUE
    ELSE /\ FieldValidate(f, obj)
         /\ IsNull(obj) \/
            \A attr \in Attrs(f.model) :
               Validate(FieldOf(f.model, attr),
                        Get(PairsOf(obj), ValidateLookupKey(f.model, attr)), skipped)

ArrayValidate(f, values, skipped) ==
    /\ FieldValidate(f, values)
    /\ IsNull(values) \/
       \A i \in DOMAIN values.v : Validate(f.field, values.v[i], skipped)

Validate(f, value, skipped) ==
    CASE f.kind = "Embedded" -> EmbeddedValidate(f, value, skipped)
      [] f.kind = "Array" -> ArrayValidate(f, value, skipped)
      [] OTHER -> FieldValidate(f, value)

Skipped == {d \in DOMAIN dicts : dicts[d].skip}

-----------------------------------------------------------------------------
\* Instances.
\* BaseModel.__init__: bypass records the bypass_validation flag of the call.
NewObj(cls, d, bypass) ==
    [cls |-> cls, data |-> d, bypass |-> bypass, cache |-> <<>>,
     modified |-> None, deleted |-> None]

\* BaseModel.from_data: a new instance around the given mapping, by reference.
from_data(cls, d) == NewObj(cls, d, TRUE)

\* BaseModel.to_dict
to_dict(o) == dicts[objs[o].data].m

\* dk._skip_validate = True on every mapping convert met as an instance.
MarkSkip(ds, S) ==
    [d \in DOMAIN ds |-> IF d \in S THEN [ds[d] EXCEPT !.skip = TRUE] ELSE ds[d]]

\* The mappings convert built (self.model.dict_class()) get an identity.
RECURSIVE InternPairs(_, _, _)
InternPairs(ds, pairs, out) ==
    IF pairs = <<>> THEN [ds |-> ds, m |-> out]
    ELSE LET key == Head(pairs)[1]
             val == Head(pairs)[2]
         IN  IF val.k = "map"
             THEN LET inner == InternPairs(ds, val.v, <<>>)
                      ds2 == Append(inner.ds, [m |-> inner.m, skip |-> FALSE])
                  IN  InternPairs(ds2, Tail(pairs), Append(out, <<key, RefV(Len(ds2))>>))
             ELSE InternPairs(ds, Tail(pairs), Append(out, <<key, val>>))

\* ArrayField.innermost
RECURSIVE innermost(_)
innermost(array_field) ==
    IF array_field.field.kind # "Array" THEN array_field.field
    ELSE innermost(array_field.field)

\* ArrayField._convert_data_in_list_to_model: [ok, val], ok = FALSE when it raises.
RECURSIVE walk(_, _, _)
RECURSIVE WalkItems(_, _, _, _)
WalkItems(self, field, items, out) ==
    IF items = <<>> THEN [ok |-> TRUE, val |-> ListV(out)]
    ELSE LET w == walk(self, field, Head(items))
         IN  IF ~w.ok THEN w ELSE WalkItems(self, field, Tail(items), Append(out, w.val))

RECURSIVE FromDataItems(_, _)
FromDataItems(items, out) ==
    IF items = <<>> THEN out
    ELSE FromDataItems(Tail(items), Append(out, InstV(Head(items))))

walk(self, array_field, vals) ==
    IF vals.k # "list" THEN [ok |-> FALSE, val |-> NULL]
    ELSE IF innermost(self).kind # "Embedded" THEN [ok |-> TRUE, val |-> vals]
    ELSE IF array_field.field.kind = "Embedded"
         THEN [ok |-> TRUE, val |-> ListV(FromDataItems(vals.v, <<>>))]
    ELSE IF array_field.field.kind = "Array"
         THEN WalkItems(self, array_field.field, vals.v, <<>>)
    ELSE [ok |-> TRUE, val |-> NULL]

convert_data_in_list_to_model(self, values) == walk(self, self, values)

-----------------------------------------------------------------------------
\* Dirty tracking.

MarkSetKeepsOther(o, attr, value) ==
    IF ~retain_none /\ IsNull(value)
    THEN [o EXCEPT !.deleted = Some(SetOf(o.deleted) \cup {attr}),
                   !.modified = Some(SetOf(o.modified))]
    ELSE [o EXCEPT !.modified = Some(SetOf(o.modified) \cup {attr}),
                   !.deleted = Some(SetOf(o.deleted))]

\* BaseModel.__setattr__, the part before super().__setattr__
MarkSet(o, attr, value) ==
    IF ~retain_none /\ IsNull(value)
    THEN [o EXCEPT !.deleted = Some(SetOf(o.deleted) \cup {attr}),
                   !.modified = Some(SetOf(o.modified) \ {attr})]
    ELSE [o EXCEPT !.modified = Some(SetOf(o.modified) \cup {attr}),
                   !.deleted = Some(SetOf(o.deleted) \ {attr})]

\* BaseModel.__delattr__, the part before super().__delattr__
MarkDel(o, attr) ==
    [o EXCEPT !.deleted = Some(SetOf(o.deleted) \cup {attr}),
              !.modified = Some(SetOf(o.modified) \ {attr})]

\* BaseModel._clear_marked_fields: both tests read _modified_fields.
ClearOne(o) ==
    LET mod1 == IF SetOf(o.modified) # {} THEN Some({}) ELSE o.modified
        del1 == IF SetOf(mod1) # {} THEN Some({}) ELSE o.deleted
    IN  [o EXCEPT !.modified = mod1, !.deleted = del1]

RECURSIVE clear_marked_fields(_, _)
RECURSIVE ClearValues(_, _)
ClearValues(os, values) ==
    IF values = <<>> THEN os
    ELSE ClearValues(IF Head(values)[2].k = "obj"
                     THEN clear_marked_fields(os, Head(values)[2].v) ELSE os,
                     Tail(values))

clear_marked_fields(os, i) ==
    ClearValues([os EXCEPT ![i] = ClearOne(os[i])], os[i].cache)

\* BaseModel._combine_marked_fields, the inner combine; the result is the set
\* of the paths appended to the list.
TrackedSet(o, attr_name) ==
    IF attr_name = "_modified_fields" THEN SetOf(o.modified) ELSE SetOf(o.deleted)

RECURSIVE combine(_, _, _)
combine(i, prev, attr_name) ==
    LET fields == TrackedSet(objs[i], attr_name)
        cache == objs[i].cache
    IN  {Append(prev, name) : name \in fields}
        \cup UNION {combine(cache[n][2].v, Append(prev, cache[n][1]), attr_name) :
                      n \in {x \in DOMAIN cache :
                               cache[x][2].k = "obj" /\ cache[x][1] \notin fields}}

-----------------------------------------------------------------------------
\* What the caller passes in.
ABSENT == [k |-> "absent", v |-> 0]
Entry(key, val) == IF val = ABSENT THEN <<>> ELSE <<(<<key, val>>)>>

BadValue == IntV(7)

AddressMaps ==
    {MapV(<<>>), MapV(Entry("city", Str(1))),
     MapV(Entry("city", Str(1)) \o Entry("note", Str(3)))}

HeldOf(cls) == {ObjV(x) : x \in {y \in held : objs[y].cls = cls}}

GridValues ==
    {ListV(<<ListV(<<MapV(Entry("city", Str(1)))>>)>>), ListV(<<NULL>>)}

PersonMaps ==
    {MapV(Entry("name", n) \o Entry("address", a)) :
        n \in {ABSENT, Str(1)},
        a \in {ABSENT, MapV(Entry("city", Str(1)))} \cup HeldOf("Address")}

BoardMaps == {MapV(Entry("grid", g)) : g \in {ABSENT} \cup GridValues}

Inputs(cls) ==
    CASE cls = "Person" -> PersonMaps
      [] cls = "Board" -> BoardMaps
      [] OTHER -> AddressMaps

\* The classes a run instantiates.
Classes == IF meta.root = "Person" THEN {"Person", "Address"} ELSE {"Board"}

WriteValues(attr) ==
    CASE attr = "name" -> {NULL, Str(1), BadValue}
      [] attr = "address" ->
           {NULL, MapV(Entry("city", Str(2))), BadValue} \cup HeldOf("Address")
      [] attr = "grid" -> {NULL, BadValue} \cup GridValues
      [] OTHER -> {NULL, Str(2)}

Op(op, obj, attr, arg, ok) ==
    [op |-> op, obj |-> obj, attr |-> attr, arg |-> arg, ok |-> ok]

-----------------------------------------------------------------------------
Init ==
    /\ meta \in [root : {"Person"}, aliases : SUBSET {"address", "city"},
                 required : SUBSET {"city"}, retain_none : BOOLEAN]
               \cup [root : {"Board"}, aliases : {{}}, required : {{}},
                     retain_none : BOOLEAN]
    /\ dicts = <<>>
    /\ objs = <<>>
    /\ held = {}
    /\ last = Op("init", 0, "", NULL, TRUE)
    /\ calls = 0

\* The caller makes one more counted call.
Call == calls < MaxCalls /\ calls' = calls + 1

\* BaseModel.__init__ with both bypass flags false: _clean converts, then
\* validates.  A run builds at most one instance of each class this way.
Construct(cls, kw) ==
    LET root == init_root(cls)
        c == Convert(root, kw)
        ds1 == MarkSkip(dicts, c.skip)
        valid == c.ok /\ Validate(root, c.val, Skipped \cup c.skip)
        r == InternPairs(ds1, c.val.v, <<>>)
        ds2 == Append(r.ds, [m |-> r.m, skip |-> FALSE])
        new == Len(objs) + 1
    IN  /\ Call
        /\ \A i \in DOMAIN objs : objs[i].bypass \/ objs[i].cls # cls
        /\ UNCHANGED meta
        /\ IF valid
           THEN /\ dicts' = ds2
                /\ objs' = Append(objs, NewObj(cls, Len(ds2), FALSE))
                /\ held' = held \cup {new}
                /\ last' = Op("construct", new, cls, kw, TRUE)
           ELSE /\ dicts' = ds1
                /\ UNCHANGED <<objs, held>>
                /\ last' = Op("construct", 0, cls, kw, FALSE)

StoreNoneAlwaysPops(m, key) == Pop(m, key)

\* Field.__set__, the branch of a null value: keep a null entry or drop the entry.
StoreNone(m, key) == IF retain_none THEN Put(m, key, NULL) ELSE Pop(m, key)

\* Field.__set__ on instance o, after BaseModel.__setattr__ marked the attribute.
FieldSet(o, attr, value) ==
    LET f == FieldOf(objs[o].cls, attr)
        marked == [objs EXCEPT ![o] = MarkSet(objs[o], attr, value)]
        c == Convert(f, value)
        ds1 == MarkSkip(dicts, c.skip)
        valid == c.ok /\ Validate(f, c.val, Skipped \cup c.skip)
        d == objs[o].data
        \* dk['_data'][self.name] = value
        ds2 == IF c.val.k = "map"
               THEN Append(ds1, [m |-> c.val.v, skip |-> FALSE]) ELSE ds1
        stored == IF c.val.k = "map" THEN RefV(Len(ds2)) ELSE c.val
        ds3 == [ds2 EXCEPT ![d].m = Put(@, f.name, stored)]
        new == Len(objs) + 1
        w == convert_data_in_list_to_model(f, stored)
    IN  IF ~valid
        THEN /\ dicts' = ds1
             /\ objs' = marked
             /\ last' = Op("set", o, attr, value, FALSE)
        ELSE IF ~IsNull(c.val)
        THEN CASE f.kind = "Embedded" ->
                    /\ dicts' = ds3
                    /\ objs' = Append([marked EXCEPT ![o].cache = Put(@, f.name, ObjV(new))],
                                      from_data(f.model, stored.v))
                    /\ last' = Op("set", o, attr, value, TRUE)
               [] f.kind = "Array" ->
                    /\ dicts' = ds3
                    /\ objs' = IF w.ok
                               THEN [marked EXCEPT ![o].cache = Put(@, f.name, w.val)]
                               ELSE marked
                    /\ last' = Op("set", o, attr, value, w.ok)
               [] OTHER ->
                    /\ dicts' = ds3
                    /\ objs' = marked
                    /\ last' = Op("set", o, attr, value, TRUE)
        ELSE /\ dicts' = [ds1 EXCEPT ![d].m = StoreNone(@, f.name)]
             /\ objs' = [marked EXCEPT ![o].cache = Pop(@, f.name)]
             /\ last' = Op("set", o, attr, value, TRUE)

\* BaseModel.__setattr__ for a declared attribute
SetAttr(o, attr, value) ==
    /\ Call
    /\ FieldSet(o, attr, value)
    /\ UNCHANGED <<meta, held>>

\* BaseModel.__delattr__ for a declared attribute, then Field.__delete__
DelAttr(o, attr) ==
    LET f == FieldOf(objs[o].cls, attr)
    IN  /\ Call
        /\ dicts' = [dicts EXCEPT ![objs[o].data].m = Pop(@, f.name)]
        /\ objs' = [objs EXCEPT ![o] = [MarkDel(objs[o], attr) EXCEPT !.cache = Pop(@, f.name)]]
        /\ last' = Op("del", o, attr, NULL, TRUE)
        /\ UNCHANGED <<meta, held>>

\* Field.__get__
GetAttr(o, attr) ==
    LET f == FieldOf(objs[o].cls, attr)
        m == to_dict(o)
        value == Get(m, f.name)
        new == Len(objs) + 1
        w == convert_data_in_list_to_model(f, value)
    IN  /\ UNCHANGED <<meta, dicts, last, calls>>
        /\ IF ~Has(m, f.name)
           THEN /\ UNCHANGED <<objs, held>>
           ELSE IF IsNull(value) \/ f.kind \notin {"Embedded", "Array"}
           THEN /\ UNCHANGED <<objs, held>>
           ELSE IF Has(objs[o].cache, f.name)
           THEN /\ UNCHANGED objs
                /\ held' = IF f.kind = "Embedded"
                           THEN held \cup {Get(objs[o].cache, f.name).v} ELSE held
           ELSE IF f.kind = "Embedded"
           THEN /\ objs' = Append([objs EXCEPT ![o].cache = Put(@, f.name, ObjV(new))],
                                  from_data(f.model, value.v))
                /\ held' = held \cup {new}
           ELSE /\ objs' = IF w.ok THEN [objs EXCEPT ![o].cache = Put(@, f.name, w.val)]
                           ELSE objs
                /\ UNCHANGED held

\* BaseModel._clear_marked_fields
Clear(o) ==
    /\ Call
    /\ objs' = clear_marked_fields(objs, o)
    /\ last' = Op("clear", o, "", NULL, TRUE)
    /\ UNCHANGED <<meta, dicts, held>>

\* BaseModel._combine_marked_fields: returns (modified, deleted), changes nothing.
combine_marked_fields(o) ==
    [modified |-> combine(o, <<>>, "_modified_fields"),
     deleted |-> combine(o, <<>>, "_deleted_fields")]

Combine(o) ==
    /\ o \in DOMAIN objs
    /\ UNCHANGED vars

Next ==
    \/ \E cls \in Classes : \E kw \in Inputs(cls) : Construct(cls, kw)
    \/ \E o \in held : \E attr \in Attrs(objs[o].cls) :
          \E value \in WriteValues(attr) : SetAttr(o, attr, value)
    \/ \E o \in held : \E attr \in Attrs(objs[o].cls) : DelAttr(o, attr)
    \/ \E o \in held : \E attr \in Attrs(objs[o].cls) : GetAttr(o, attr)
    \/ \E o \in held : Clear(o)
    \/ \E o \in held : Combine(o)

Spec == Init /\ [][Next]_vars

-----------------------------------------------------------------------------
\* Vocabulary of the properties.

\* A step that is a constructor call, a write, a delete or a clear.
Called(op) == calls' # calls /\ last'.op = op

\* A value with the mappings it refers to written out.
Deref(val) == IF val.k = "ref" THEN MapV(dicts[val.v].m) ELSE val

RECURSIVE DerefPairs(_, _)
DerefPairs(pairs, out) ==
    IF pairs = <<>> THEN out
    ELSE DerefPairs(Tail(pairs), Append(out, <<Head(pairs)[1], Deref(Head(pairs)[2])>>))

\* The backing map of instance i, nested maps written out.
Deep(i) == DerefPairs(to_dict(i), <<>>)

\* Instance o is b itself or sits in b's materialization cache.
Owns(b, o) ==
    o = b \/ \E n \in DOMAIN objs[b].cache : objs[b].cache[n][2] = ObjV(o)

\* An input value that matches field f: right type, required values present.
RECURSIVE WellFormed(_, _)
WellFormed(f, value) ==
    LET val == FieldConvert(f, value)
    IN  IF IsNull(val) THEN ~f.required
        ELSE CASE f.kind = "Embedded" ->
                    \/ val.k = "obj" /\ objs[val.v].cls = f.model
                    \/ /\ val.k = "map"
                       /\ \A attr \in Attrs(f.model) :
                             WellFormed(FieldOf(f.model, attr), Get(val.v, attr))
               [] f.kind = "Array" ->
                    /\ val.k = "list"
                    /\ \A n \in DOMAIN val.v : WellFormed(f.field, val.v[n])
               [] OTHER -> val.k = "str"

\* The external names of the declared fields of cls.
Names(cls) == {FieldOf(cls, attr).name : attr \in Attrs(cls)}

\* The declared field an external name of cls belongs to, by declaration index.
DeclIndex(cls, key) ==
    CHOOSE n \in DOMAIN field_order(cls) : FieldOf(cls, field_order(cls)[n]).name = key

\* The declared-field keys of a backing map appear in declaration order.
Ordered(cls, m) ==
    \A x, y \in DOMAIN m :
        (x < y /\ m[x][1] \in Names(cls) /\ m[y][1] \in Names(cls))
            => DeclIndex(cls, m[x][1]) < DeclIndex(cls, m[y][1])

Built == {i \in DOMAIN objs : ~objs[i].bypass}

EmbeddedAttrs(cls) == {attr \in Attrs(cls) : FieldOf(cls, attr).kind = "Embedded"}

-----------------------------------------------------------------------------
\* C1: round trip.  For every schema and every well-formed input map,
\* validate(convert(input)) succeeds (the constructor returns) and the
\* value under each field's external name is that field's converted value.
C1_RoundTrip ==
    (last.op = "construct" /\ WellFormed(init_root(last.attr), last.arg)) =>
        /\ last.ok
        /\ \A attr \in Attrs(last.attr) :
              LET f == FieldOf(last.attr, attr)
              IN  Deref(Get(to_dict(last.obj), f.name))
                    = Deref(Convert(f, Get(last.arg.v, attr)).val)

\* C2: an instance built by the constructor stays validated under writes and
\* deletes: its backing map passes the schema's validate and holds a
\* non-null value for every required field.
C2_StaysValidated ==
    \A i \in Built :
        /\ Validate(init_root(objs[i].cls), RefV(objs[i].data), Skipped)
        /\ \A attr \in Attrs(objs[i].cls) :
              FieldOf(objs[i].cls, attr).required =>
                 ~IsNull(Get(to_dict(i), FieldOf(objs[i].cls, attr).name))

\* C3: dirty tracking.  A new instance is clean; no attribute is ever in both
\* sets; a write or delete puts its attribute in the set the rule names
\* (deleted for a delete and for a null write with retain_none false,
\* modified for every other write) and leaves every other attribute where
\* it was.
C3_Step ==
    /\ \A i \in DOMAIN objs' :
          SetOf(objs'[i].modified) \cap SetOf(objs'[i].deleted) = {}
    /\ \A i \in DOMAIN objs' \ DOMAIN objs :
          objs'[i].modified = None /\ objs'[i].deleted = None
    /\ (Called("set") \/ Called("del")) =>
          LET o == last'.obj
              a == last'.attr
              gone == last'.op = "del" \/ (IsNull(last'.arg) /\ ~retain_none)
          IN  /\ a \in SetOf(objs'[o].deleted) <=> gone
              /\ a \in SetOf(objs'[o].modified) <=> ~gone
              /\ \A i \in DOMAIN objs : \A b \in Attrs(objs[i].cls) :
                    (i # o \/ b # a) =>
                       /\ b \in SetOf(objs'[i].modified) <=> b \in SetOf(objs[i].modified)
                       /\ b \in SetOf(objs'[i].deleted) <=> b \in SetOf(objs[i].deleted)

C3_DirtyTracking == [][C3_Step]_vars

\* A write has put an attribute in deleted, next to one a write left in modified.
C3_Witness ==
    /\ last.op = "set" /\ IsNull(last.arg)
    /\ last.attr \in SetOf(objs[last.obj].deleted)
    /\ SetOf(objs[last.obj].modified) # {}

\* C4: nested dirty paths.  With the parent clean, a sub-attribute c written
\* on the nested record read from attribute a shows in combine's modified
\* list as the path a.c, built from the attribute names.
C4_NestedPath ==
    \A p \in DOMAIN objs : \A a \in EmbeddedAttrs(objs[p].cls) :
        LET slot == Get(objs[p].cache, FieldOf(objs[p].cls, a).name)
        IN  (/\ slot.k = "obj"
             /\ SetOf(objs[p].modified) \cup SetOf(objs[p].deleted) = {})
            => \A c \in SetOf(objs[slot.v].modified) :
                  <<a, c>> \in combine_marked_fields(p).modified

\* What the next read of attribute attr of instance o returns from the cache,
\* against what the read would build from the backing value it finds.
Stale(o, attr) ==
    LET f == FieldOf(objs[o].cls, attr)
        value == Get(to_dict(o), f.name)
        slot == Get(objs[o].cache, f.name)
    IN  /\ Has(to_dict(o), f.name) /\ ~IsNull(value)
        /\ Has(objs[o].cache, f.name)
        /\ IF f.kind = "Embedded"
           THEN ~(slot.k = "obj" /\ value.k = "ref" /\ objs[slot.v].data = value.v)
           ELSE slot # convert_data_in_list_to_model(f, value).val

\* C5: cache coherence.  No read of a nested-record or array attribute
\* returns a value materialized from a backing value that has since been
\* replaced or removed.
C5_CacheCoherent ==
    \A o \in DOMAIN objs : \A attr \in Attrs(objs[o].cls) :
        FieldOf(objs[o].cls, attr).kind \in {"Embedded", "Array"} => ~Stale(o, attr)

\* C6: nested records are owned by value.  A write or delete on an instance
\* changes the backing map of no constructor-built instance other than the
\* one it is made on or through.
C6_Step ==
    (Called("set") \/ Called("del")) =>
        \A b \in Built : ~Owns(b, last'.obj) => Deep(b)' = Deep(b)

C6_OwnedByValue == [][C6_Step]_vars

\* C7: retain_none on writes.  An accepted write of null leaves a null entry
\* under the field's external name when retain_none is true and no entry
\* when it is false.
NullWriteStored(o, attr) ==
    LET key == FieldOf(objs[o].cls, attr).name
    IN  IF retain_none
        THEN Has(to_dict(o), key) /\ IsNull(Get(to_dict(o), key))
        ELSE ~Has(to_dict(o), key)

C7_RetainNone ==
    (last.op = "set" /\ last.ok /\ IsNull(last.arg)) =>
        NullWriteStored(last.obj, last.attr)

\* C7 as amended: the same, for the attributes whose default is null; for an
\* attribute with a default, the write stores the default.
C7_RetainNoneNoDefault ==
    (last.op = "set" /\ last.ok /\ IsNull(last.arg)) =>
        LET f == FieldOf(objs[last.obj].cls, last.attr)
        IN  IF IsNull(f.default) THEN NullWriteStored(last.obj, last.attr)
            ELSE Get(to_dict(last.obj), f.name) = f.default

\* An accepted null write on an attribute without default, retain_none being
\* false, has left no entry for it.
C7_Witness ==
    /\ last.op = "set" /\ last.ok /\ IsNull(last.arg)
    /\ IsNull(FieldOf(objs[last.obj].cls, last.attr).default)
    /\ ~retain_none
    /\ ~Has(to_dict(last.obj), FieldOf(objs[last.obj].cls, last.attr).name)
    /\ last.attr \in SetOf(objs[last.obj].deleted)

\* C8: order preservation.  In every backing map, after convert and after
\* any writes and deletes, the declared-field keys are in declaration order.
C8_OrderPreserved ==
    \A i \in DOMAIN objs : Ordered(objs[i].cls, to_dict(i))

\* C8 as amended: the map convert returns is in declaration order; a delete,
\* or a write to an attribute the map has an entry for, keeps a map in
\* declaration order; a write to an attribute the map has no entry for puts
\* its key last.
C8_Step ==
    /\ (Called("construct") /\ last'.ok) =>
          Ordered(last'.attr, dicts'[objs'[last'.obj].data].m)
    /\ Called("set") =>
          LET key == FieldOf(objs[last'.obj].cls, last'.attr).name
              after == dicts'[objs[last'.obj].data].m
          IN  (~Has(to_dict(last'.obj), key) /\ Has(after, key))
                 => after[Len(after)][1] = key
    /\ \A i \in DOMAIN objs :
          (/\ Ordered(objs[i].cls, to_dict(i))
           /\ \/ Called("del")
              \/ /\ Called("set")
                 /\ Has(to_dict(last'.obj),
                        FieldOf(objs[last'.obj].cls, last'.attr).name))
          => Ordered(objs[i].cls, dicts'[objs[i].data].m)

C8_OrderKept == [][C8_Step]_vars

\* A write has replaced the first of two entries of a map in place.
C8_Witness ==
    /\ last.op = "set" /\ last.ok /\ last.attr = "name" /\ last.arg = Str(1)
    /\ Len(to_dict(last.obj)) = 2
    /\ to_dict(last.obj)[1] = <<"name", Str(1)>>
    /\ "name" \in SetOf(objs[last.obj].modified)

\* C9: clearing.  After clear, the instance and every nested record in its
\* cache have empty modified and deleted sets, and combine returns two
\* empty lists.
C9_ClearResets ==
    last.op = "clear" =>
        /\ \A i \in DOMAIN objs :
              Owns(last.obj, i) =>
                 SetOf(objs[i].modified) = {} /\ SetOf(objs[i].deleted) = {}
        /\ combine_marked_fields(last.obj).modified = {}
        /\ combine_marked_fields(last.obj).deleted = {}

\* C10: coarsest marker only.  When a nested-record attribute a is tracked
\* on the parent, combine reports no path beneath a in either list.
Beneath(cls, a, path) ==
    Len(path) > 1 /\ path[1] \in {a, FieldOf(cls, a).name}

C10_CoarsestOnly ==
    \A p \in DOMAIN objs : \A a \in EmbeddedAttrs(objs[p].cls) :
        a \in SetOf(objs[p].modified) \cup SetOf(objs[p].deleted) =>
           \A path \in combine_marked_fields(p).modified
                         \cup combine_marked_fields(p).deleted :
               ~Beneath(objs[p].cls, a, path)

\* C11: failed writes are atomic.  When an attribute write raises, the
\* instance's backing map, its materialization cache and its modified and
\* deleted sets are as they were before the write.
C11_Step ==
    (Called("set") /\ ~last'.ok) =>
        LET o == last'.obj
        IN  /\ dicts'[objs'[o].data].m = to_dict(o)
            /\ objs'[o].data = objs[o].data
            /\ objs'[o].cache = objs[o].cache
            /\ SetOf(objs'[o].modified) = SetOf(objs[o].modified)
            /\ SetOf(objs'[o].deleted) = SetOf(objs[o].deleted)

C11_FailedWriteAtomic == [][C11_Step]_vars

====
